---- MODULE Spec2Model ----
(***************************************************************************)
(* State-machine model of the SACCO reporting backend.                     *)
(*                                                                         *)
(* Each part of the repository is modelled by actions over its own         *)
(* variables; a specification runs one part and leaves the others in       *)
(* their initial state:                                                    *)
(*   Spec          the database-backed report routes (backend/models/      *)
(*                 Report.js) with the report orchestrator                 *)
(*                 (backend/services/reportGenerator.js), reliable store;  *)
(*   TryFaultSpec  the same when the store may throw in the try block;     *)
(*   FaultSpec     the same when the store may throw anywhere;             *)
(*   LiveSpec      the same when a render may hang, fairly scheduled;      *)
(*   NotifySpec    the same with socket.io clients connected;              *)
(*   BrowserSpec   initBrowser, the renders and cleanup of the generator;  *)
(*   MockSpec      the in-memory report routes (backend/routes/reports.js);*)
(*   MockAccessSpec                                                        *)
(*                 reads and updates of the in-memory routes by user;      *)
(*   TemplateSpec, TemplateSerialSpec                                      *)
(*                 the ReportTemplate beforeCreate/beforeUpdate hooks,     *)
(*                 operations interleaved or one at a time;                *)
(*   ComplianceSpec                                                        *)
(*                 processComplianceChecks over lists of checks;           *)
(*   AggregateSpec aggregateData over lists of records;                    *)
(*   PipelineSpec  applyTemplateTransformations over records and steps;    *)
(*   HookSpec      the beforeCreate hook of the Report model;              *)
(*   MockLiveSpec  the in-memory routes without deletions, timers firing;  *)
(*   RegisterSpec, RegisterSerialSpec                                      *)
(*                 POST /register of backend/routes/auth.js, requests      *)
(*                 interleaved or one at a time;                           *)
(*   RateSpec      the limiter createRateLimit builds.                     *)
(*                                                                         *)
(* Every await of the source is a scheduling point: the awaited operation  *)
(* takes effect in one step, the synchronous code that follows it runs in  *)
(* the next step of the same task.                                         *)
(***************************************************************************)
EXTENDS Integers, Sequences, FiniteSets, TLC

\* ---------------------------------------------------------------- bounds
MaxReports == 2
\* How many generateReport invocations there are in all.
MaxTasks == 2

\* How many requests other than POST / the modelled clients send.
MaxRequests == 2

NULL == "null"

\* No file (a null outputFile); the file a task writes is <<task number>>: its
\* name holds the report id and Date.now(), so it is the task's own.
NoFile == <<>>

\* ------------------------------------------------------------- vocabulary
\* The four values the Report model declares for status.
ModelStatuses == {"pending", "generating", "completed", "failed"}

\* The values the PUT validator of the database-backed route accepts.
PutStatuses == {"pending", "processing", "completed", "failed"}

\* The report types the create validator accepts.
ReportTypes == {"financial", "compliance", "operational", "custom"}

\* The types the modelled create requests carry: one of the three types that
\* need no template, and custom.
CreateTypes == {"compliance", "custom"}

NotFoundMsg == "Report not found"
NoTemplateMsg == "Custom report requires a template"
UnsupportedMsg == "Unsupported report type"
FetchFailedMsg == "fetch failed"
RenderFailedMsg == "render failed"
StoreFailedMsg == "store failed"

VARIABLES
  reports,        \* the reports table: id -> row, for the rows that exist
  nextId,         \* the table's autoincrement counter
  tasks,          \* the generateReport invocations, in order of invocation
  notifications,  \* what io.emit('reportStatusUpdate', ...) has sent, in order
  files,          \* the output files written to the reports directory
  creating,       \* POST / handlers between Report.create and their response
  requests,       \* how many requests other than POST / have been served
  lastResponse,   \* the last HTTP response sent by a route handler
  unhandled       \* TRUE once a rejection reached no handler

dbVars ==
  <<reports, nextId, tasks, notifications, files, creating, requests, lastResponse,
    unhandled>>

VARIABLES
  heap,           \* the report objects, by reference
  mockReports,    \* the array: a sequence of references
  timers,         \* the pending setTimeout callbacks, each holding a reference
  fired,          \* how many timers have fired
  socketio,       \* whether app.get('socketio') yields the socket.io server
  mockEmitted,    \* what ioInstance.to(room).emit('report_update', ...) sent
  mockRequests    \* how many requests that allocate nothing have been served

mockVars == <<heap, mockReports, timers, fired, socketio, mockEmitted, mockRequests>>

VARIABLES
  templates,      \* the report_templates table: row i has id i
  tplOps          \* creates and updates between their hook and their write

tplVars == <<templates, tplOps>>

VARIABLES
  mockRead        \* the last answer of GET /:id of the in-memory routes

readVars == <<mockRead>>

VARIABLES
  connected,      \* the socket.io clients connected to the server
  rooms,          \* socket -> the users whose room user_<id> it has joined
  delivered       \* where the last status notification emitted has arrived

sockVars == <<connected, rooms>>

VARIABLES
  browser,        \* this.browser of the ReportGenerator: 0 (null) or an engine
  engines,        \* how many engines puppeteer.launch has started in all
  launches,       \* how many of them since the last cleanup finished
  renders,        \* per rendering task: where it is and the engine it holds
  closing         \* cleanup between browser.close() and this.browser = null

browserVars == <<browser, engines, launches, renders, closing>>

VARIABLES
  checks,         \* data.checks handed to processComplianceChecks
  compliance      \* what processComplianceChecks returned: <<>> until it ran

complianceVars == <<checks, compliance>>

VARIABLES
  aggData,        \* the records handed to aggregateData
  aggregated      \* what aggregateData returned: <<>> until it ran

aggVars == <<aggData, aggregated>>

VARIABLES
  pipeData,       \* the caller's array handed to applyTemplateTransformations
  pipeSteps,      \* templateConfig.transformations
  pipeResult      \* the outcome of applyTemplateTransformations: <<>> until it ran

pipeVars == <<pipeData, pipeSteps, pipeResult>>

VARIABLES
  hookNow,        \* new Date() when the beforeCreate hook of Report runs
  hookReport,     \* the report instance handed to the hook
  hookDone        \* whether the hook has run

hookVars == <<hookNow, hookReport, hookDone>>

\* The inputs and results of the pure computations.
pureVars == <<complianceVars, aggVars, pipeVars, hookVars>>

VARIABLES
  users,          \* mockUsers of backend/routes/auth.js, in array order
  registering,    \* POST /register handlers at their password-hashing awaits
  registrations,  \* how many POST /register requests have been received
  registerResponse \* the last response of POST /register

authVars == <<users, registering, registrations, registerResponse>>

VARIABLES
  rateNow,        \* Date.now(), in units of time
  rateRequests,   \* the limiter's Map: key -> <<entry>>, <<>> for no entry
  ratePassed,     \* per key: the times of the requests passed on to next()
  rateResponse    \* what the limiter did with the last request

rateVars == <<rateNow, rateRequests, ratePassed, rateResponse>>

\* What an action of one part leaves alone: the variables of the other parts.
\* An action that emits to sockets changes `delivered` and nothing else of them.
emitDb == <<mockVars, tplVars, readVars, sockVars, browserVars, pureVars, authVars, rateVars>>
emitMock == <<dbVars, tplVars, readVars, sockVars, browserVars, pureVars, authVars, rateVars>>
notDb == <<emitDb, delivered>>
notMock == <<emitMock, delivered>>
notTpl == <<dbVars, mockVars, readVars, sockVars, delivered, browserVars, pureVars, authVars, rateVars>>
notRead == <<dbVars, mockVars, tplVars, sockVars, delivered, browserVars, pureVars, authVars, rateVars>>
notSock == <<dbVars, mockVars, tplVars, readVars, delivered, browserVars, pureVars, authVars, rateVars>>
notBrowser == <<dbVars, mockVars, tplVars, readVars, sockVars, delivered, pureVars, authVars, rateVars>>
notPure == <<dbVars, mockVars, tplVars, readVars, sockVars, delivered, browserVars, authVars,
            rateVars>>
notAuth == <<dbVars, mockVars, tplVars, readVars, sockVars, delivered, browserVars, pureVars, rateVars>>
notRate == <<dbVars, mockVars, tplVars, readVars, sockVars, delivered, browserVars, pureVars, authVars>>

\* The notification with report id `id` arrives at the sockets `receivers`;
\* what is recorded with it is the rooms the socket is in at that moment.
Deliver(receivers, id) ==
  delivered' = {[socket |-> s, reportId |-> id, rooms |-> rooms[s]] : s \in receivers}

\* io.emit(event, data): to every connected socket.
Broadcast(id) == Deliver(connected, id)

\* io.to('user_' + user).emit(event, data): to the sockets in that room.
ToRoom(user, id) == Deliver({s \in connected : user \in rooms[s]}, id)

Row(type, hasTemplate) ==
  [type |-> type, hasTemplate |-> hasTemplate, status |-> "pending",
   outputFile |-> NoFile, errorMessage |-> NULL, completedAt |-> FALSE]

NewTask(id, caller) ==
  [report |-> id, caller |-> caller, pc |-> "load",
   loaded |-> FALSE, type |-> NULL, hasTemplate |-> FALSE,
   err |-> NULL, fetched |-> FALSE, file |-> NoFile]

TaskIds == 1 .. Len(tasks)

SetTask(t, new) == tasks' = [tasks EXCEPT ![t] = new]

\* report.update(values) / Report.update(values, {where: {id}}): an UPDATE by
\* primary key, which changes nothing when the row is gone.
StoreUpdate(id, new) ==
  IF id \in DOMAIN reports
    THEN reports' = [reports EXCEPT ![id] = new]
    ELSE reports' = reports

Notify(id, status, message) ==
  /\ notifications' = Append(notifications,
                             [reportId |-> id, status |-> status, message |-> message])
  /\ Broadcast(id)

DbInit ==
  /\ reports = <<>>
  /\ nextId = 1
  /\ tasks = <<>>
  /\ notifications = <<>>
  /\ files = {}
  /\ creating = {}
  /\ requests = 0
  /\ lastResponse = [op |-> "none"]
  /\ unhandled = FALSE

\* ------------------------------------------------ database-backed routes
\* The model admits a request that starts a generation only while the bounded
\* number of generateReport invocations leaves room for it.
TaskRoom == Len(tasks) + Cardinality(creating) < MaxTasks

\* POST / up to `await Report.create(...)`: the row is inserted with status
\* pending; the handler then awaits logActivity.
CreateInsert(type, hasTemplate) ==
  /\ nextId <= MaxReports
  /\ TaskRoom
  /\ hasTemplate \in (IF type = "custom" THEN BOOLEAN ELSE {FALSE})
  /\ reports' = reports @@ (nextId :> Row(type, hasTemplate))
  /\ creating' = creating \cup {nextId}
  /\ nextId' = nextId + 1
  /\ UNCHANGED <<tasks, notifications, files, requests, lastResponse, unhandled>>
  /\ UNCHANGED notDb

CreateResponseFromStore(id) ==
  [op |-> "create", code |-> 201, id |-> id,
   status |-> IF id \in DOMAIN reports THEN reports[id].status ELSE "pending"]

\* What POST / answers: 201 with the instance Report.create returned.
CreateResponse(id) ==
  [op |-> "create", code |-> 201, id |-> id, status |-> "pending"]

\* POST / after logActivity: generateReport(report.id) is called and runs up to
\* its first await (the findByPk is issued, nothing is read or written yet), a
\* .catch(console.error) is attached, and the response is sent.
CreateRespond(id) ==
  /\ id \in creating
  /\ creating' = creating \ {id}
  /\ tasks' = Append(tasks, NewTask(id, "create"))
  /\ lastResponse' = CreateResponse(id)
  /\ UNCHANGED <<reports, nextId, notifications, files, requests, unhandled>>
  /\ UNCHANGED notDb

\* One more of the bounded number of requests is served.
Served ==
  /\ requests < MaxRequests
  /\ requests' = requests + 1

TriggerSingleFlight(id) ==
  /\ id \in DOMAIN reports
  /\ \A t \in 1 .. Len(tasks) :
       tasks[t].report = id => tasks[t].pc \in {"resolved", "rejected"}
  /\ TaskRoom
  /\ Served
  /\ tasks' = Append(tasks, NewTask(id, "api"))
  /\ UNCHANGED <<reports, nextId, notifications, files, creating, lastResponse, unhandled>>
  /\ UNCHANGED notDb

\* The exported generateReport(reportId), called by any other caller, which
\* receives the promise.
Trigger(id) ==
  /\ id \in DOMAIN reports
  /\ TaskRoom
  /\ Served
  /\ tasks' = Append(tasks, NewTask(id, "api"))
  /\ UNCHANGED <<reports, nextId, notifications, files, creating, lastResponse, unhandled>>
  /\ UNCHANGED notDb

\* PUT /:id with a body whose status passed the isIn validator (NULL: the body
\* has no status): report.update(req.body), whatever the report's status is.
UpdateReport(id, status) ==
  /\ status \in PutStatuses \cup {NULL}
  /\ reports' = IF id \in DOMAIN reports /\ status # NULL
                  THEN [reports EXCEPT ![id].status = status]
                  ELSE reports
  /\ Served
  /\ UNCHANGED <<nextId, tasks, notifications, files, creating, lastResponse, unhandled>>
  /\ UNCHANGED notDb

\* POST /:id/upload with a file: the report is put into processing.
UploadData(id) ==
  /\ reports' = IF id \in DOMAIN reports
                  THEN [reports EXCEPT ![id].status = "processing"]
                  ELSE reports
  /\ Served
  /\ UNCHANGED <<nextId, tasks, notifications, files, creating, lastResponse, unhandled>>
  /\ UNCHANGED notDb

\* DELETE /:id: report.destroy().
DeleteReport(id) ==
  /\ reports' = [i \in DOMAIN reports \ {id} |-> reports[i]]
  /\ Served
  /\ UNCHANGED <<nextId, tasks, notifications, files, creating, lastResponse, unhandled>>
  /\ UNCHANGED notDb

DownloadResultWithoutStatusCheck(found, status, outputFile, onDisk) ==
  IF ~found THEN 404
  ELSE IF outputFile = NoFile THEN 400
  ELSE IF onDisk THEN 200
  ELSE 404

\* What GET /:id/download answers for the row findByPk returned (found: there
\* is a row), given whether fs.existsSync finds the file. 200 is the piped file.
DownloadResult(found, status, outputFile, onDisk) ==
  IF ~found THEN 404
  ELSE IF status # "completed" \/ outputFile = NoFile THEN 400
  ELSE IF onDisk THEN 200
  ELSE 404

DownloadReport(id, onDisk) ==
  /\ LET found == id \in DOMAIN reports
         status == IF found THEN reports[id].status ELSE NULL
         outputFile == IF found THEN reports[id].outputFile ELSE NoFile
         code == DownloadResult(found, status, outputFile, onDisk)
     IN lastResponse' = [op |-> "download", code |-> code, id |-> id]
  /\ Served
  /\ UNCHANGED <<reports, nextId, tasks, notifications, files, creating, unhandled>>
  /\ UNCHANGED notDb

\* ------------------------------------- ReportGenerator.generateReport steps
DispatchErrorWithFallback(type, hasTemplate) ==
  IF type \notin ReportTypes THEN UnsupportedMsg ELSE NULL

\* The strategy generateReport selects for a loaded report, up to the
\* strategy's first await: NULL when it goes on to fetch, the thrown message
\* otherwise.
DispatchError(type, hasTemplate) ==
  IF type \notin ReportTypes
    THEN UnsupportedMsg
  ELSE IF type = "custom" /\ ~hasTemplate THEN NoTemplateMsg
  ELSE NULL

\* Entering the catch block: the message is kept, `if (reportId)` holds (ids
\* start at 1) and the Report.update of the catch block is awaited.
Throw(task, message) == [task EXCEPT !.pc = "catch", !.err = message]

\* await Report.findByPk(reportId, {include: template}).
Load(t) ==
  /\ tasks[t].pc = "load"
  /\ LET task == tasks[t]
         id == task.report
     IN IF id \in DOMAIN reports
          THEN SetTask(t, [task EXCEPT !.pc = "markProcessing", !.loaded = TRUE,
                                       !.type = reports[id].type,
                                       !.hasTemplate = reports[id].hasTemplate])
          ELSE SetTask(t, Throw(task, NotFoundMsg))
  /\ UNCHANGED <<reports, nextId, notifications, files, creating, requests, lastResponse, unhandled>>
  /\ UNCHANGED notDb

\* await report.update({status: 'processing', startedAt}).
MarkProcessing(t) ==
  /\ tasks[t].pc = "markProcessing"
  /\ LET id == tasks[t].report
     IN StoreUpdate(id, [reports[id] EXCEPT !.status = "processing"])
  /\ SetTask(t, [tasks[t] EXCEPT !.pc = "dispatch"])
  /\ UNCHANGED <<nextId, notifications, files, creating, requests, lastResponse, unhandled>>
  /\ UNCHANGED notDb

\* io.emit(processing), then the switch on report.type up to the first await of
\* the strategy it selects.
Dispatch(t) ==
  /\ tasks[t].pc = "dispatch"
  /\ LET task == tasks[t]
         error == DispatchError(task.type, task.hasTemplate)
     IN /\ Notify(task.report, "processing", "Report generation started")
        /\ SetTask(t, IF error = NULL THEN [task EXCEPT !.pc = "fetch"]
                      ELSE Throw(task, error))
  /\ UNCHANGED <<reports, nextId, files, creating, requests, lastResponse, unhandled>>
  /\ UNCHANGED emitDb

\* await this.fetch...Data(...) and the synchronous processing of its result
\* (summary, compliance checks, template transformations): either may throw,
\* depending on the report's parameters.
Fetch(t, ok) ==
  /\ tasks[t].pc = "fetch"
  /\ SetTask(t, IF ok THEN [tasks[t] EXCEPT !.pc = "render", !.fetched = TRUE]
                ELSE Throw([tasks[t] EXCEPT !.fetched = TRUE], FetchFailedMsg))
  /\ UNCHANGED <<reports, nextId, notifications, files, creating, requests, lastResponse, unhandled>>
  /\ UNCHANGED notDb

\* The renderer writes the output file (XLSX.writeFile / page.pdf) or throws.
Render(t, ok) ==
  /\ tasks[t].pc = "render"
  /\ IF ok
       THEN /\ files' = files \cup {<<t>>}
            /\ SetTask(t, [tasks[t] EXCEPT !.pc = "persistCompleted", !.file = <<t>>])
       ELSE /\ files' = files
            /\ SetTask(t, Throw(tasks[t], RenderFailedMsg))
  /\ UNCHANGED <<reports, nextId, notifications, creating, requests, lastResponse, unhandled>>
  /\ UNCHANGED notDb

\* The row generateReport writes on success.
CompletedRow(row, file) ==
  [row EXCEPT !.status = "completed", !.completedAt = TRUE, !.outputFile = file]

\* await report.update({status: 'completed', completedAt, outputFile, metadata}).
PersistCompleted(t) ==
  /\ tasks[t].pc = "persistCompleted"
  /\ LET id == tasks[t].report
     IN StoreUpdate(id, CompletedRow(reports[id], tasks[t].file))
  /\ SetTask(t, [tasks[t] EXCEPT !.pc = "emitCompleted"])
  /\ UNCHANGED <<nextId, notifications, files, creating, requests, lastResponse, unhandled>>
  /\ UNCHANGED notDb

\* io.emit(completed) and return result.
EmitCompleted(t) ==
  /\ tasks[t].pc = "emitCompleted"
  /\ Notify(tasks[t].report, "completed", "Report generated successfully")
  /\ SetTask(t, [tasks[t] EXCEPT !.pc = "resolved"])
  /\ UNCHANGED <<reports, nextId, files, creating, requests, lastResponse, unhandled>>
  /\ UNCHANGED emitDb

FailedRowWithoutMessage(row, message) ==
  [row EXCEPT !.status = "failed", !.completedAt = TRUE]

\* The row the catch block writes.
FailedRow(row, message) ==
  [row EXCEPT !.status = "failed", !.errorMessage = message, !.completedAt = TRUE]

\* catch: await Report.update({status: 'failed', errorMessage, completedAt},
\* {where: {id: reportId}}).
CatchPersist(t) ==
  /\ tasks[t].pc = "catch"
  /\ LET id == tasks[t].report
     IN StoreUpdate(id, FailedRow(reports[id], tasks[t].err))
  /\ SetTask(t, [tasks[t] EXCEPT !.pc = "emitFailed"])
  /\ UNCHANGED <<nextId, notifications, files, creating, requests, lastResponse, unhandled>>
  /\ UNCHANGED notDb

\* Whether a rejection of generateReport reaches a handler: POST / attaches
\* .catch(console.error); any other caller holds the promise itself.
RejectionHandled(caller) == caller \in {"create", "api"}

\* catch: io.emit(failed), then `throw error`: the promise rejects.
EmitFailed(t) ==
  /\ tasks[t].pc = "emitFailed"
  /\ Notify(tasks[t].report, "failed", tasks[t].err)
  /\ SetTask(t, [tasks[t] EXCEPT !.pc = "rejected"])
  /\ unhandled' = (unhandled \/ ~RejectionHandled(tasks[t].caller))
  /\ UNCHANGED <<reports, nextId, files, creating, requests, lastResponse>>
  /\ UNCHANGED emitDb

Ids == 1 .. MaxReports

Next ==
  \/ \E type \in CreateTypes, hasTemplate \in BOOLEAN : CreateInsert(type, hasTemplate)
  \/ \E id \in Ids : CreateRespond(id)
  \/ \E id \in Ids : Trigger(id)
  \/ \E id \in Ids, status \in PutStatuses \cup {NULL} : UpdateReport(id, status)
  \/ \E id \in Ids : UploadData(id)
  \/ \E id \in Ids : DeleteReport(id)
  \/ \E id \in Ids, onDisk \in BOOLEAN : DownloadReport(id, onDisk)
  \/ \E t \in TaskIds : Load(t)
  \/ \E t \in TaskIds : MarkProcessing(t)
  \/ \E t \in TaskIds : Dispatch(t)
  \/ \E t \in TaskIds, ok \in BOOLEAN : Fetch(t, ok)
  \/ \E t \in TaskIds, ok \in BOOLEAN : Render(t, ok)
  \/ \E t \in TaskIds : PersistCompleted(t)
  \/ \E t \in TaskIds : EmitCompleted(t)
  \/ \E t \in TaskIds : CatchPersist(t)
  \/ \E t \in TaskIds : EmitFailed(t)

\* --------------------------------------------------- the store may throw
\* An awaited store operation of the try block rejects: nothing is written and
\* the catch block is entered with the store's error.
StoreFault(t) ==
  /\ tasks[t].pc \in {"load", "markProcessing", "persistCompleted"}
  /\ SetTask(t, Throw(tasks[t], StoreFailedMsg))
  /\ UNCHANGED <<reports, nextId, notifications, files, creating, requests, lastResponse, unhandled>>
  /\ UNCHANGED notDb

\* The Report.update awaited inside the catch block rejects: the catch block is
\* left at that await, before io.emit, and generateReport rejects.
CatchPersistFault(t) ==
  /\ tasks[t].pc = "catch"
  /\ SetTask(t, [tasks[t] EXCEPT !.pc = "rejected"])
  /\ unhandled' = (unhandled \/ ~RejectionHandled(tasks[t].caller))
  /\ UNCHANGED <<reports, nextId, notifications, files, creating, requests, lastResponse>>
  /\ UNCHANGED notDb

TryFaultNext ==
  \/ Next
  \/ \E t \in TaskIds : StoreFault(t)

FaultNext ==
  \/ TryFaultNext
  \/ \E t \in TaskIds : CatchPersistFault(t)

\* ------------------------------------------------- a render that hangs
\* The render awaited by a generation (page.setContent, page.pdf, ...) never
\* settles: the task stays at that await for good. generateReport has no
\* timeout and no cancellation.
RenderHangs(t) ==
  /\ tasks[t].pc = "render"
  /\ SetTask(t, [tasks[t] EXCEPT !.pc = "hung"])
  /\ UNCHANGED <<reports, nextId, notifications, files, creating, requests, lastResponse, unhandled>>
  /\ UNCHANGED notDb

StepUnlessHung(t) ==
  /\ t \in TaskIds
  /\ \A u \in TaskIds : tasks[u].pc # "hung"
  /\ \/ Load(t) \/ MarkProcessing(t) \/ Dispatch(t)
     \/ \E ok \in BOOLEAN : Fetch(t, ok)
     \/ \E ok \in BOOLEAN : Render(t, ok)
     \/ PersistCompleted(t) \/ EmitCompleted(t) \/ CatchPersist(t) \/ EmitFailed(t)

\* The next step of generation task t: the continuation of the await it is at.
\* The event loop runs the continuations of the awaits that have settled,
\* whatever the other tasks are waiting for.
Step(t) ==
  /\ t \in TaskIds
  /\ \/ Load(t) \/ MarkProcessing(t) \/ Dispatch(t)
     \/ \E ok \in BOOLEAN : Fetch(t, ok)
     \/ \E ok \in BOOLEAN : Render(t, ok)
     \/ PersistCompleted(t) \/ EmitCompleted(t) \/ CatchPersist(t) \/ EmitFailed(t)

\* Reports are created and generated; a render may hang.
LiveNext ==
  \/ \E type \in CreateTypes, hasTemplate \in BOOLEAN : CreateInsert(type, hasTemplate)
  \/ \E id \in Ids : CreateRespond(id)
  \/ \E t \in 1 .. MaxTasks : Step(t)
  \/ \E t \in TaskIds : RenderHangs(t)

\* ================================================== in-memory report routes
\* backend/routes/reports.js keeps the reports in the array mockReports. Its
\* elements are objects: a handler that found one holds a reference to it, and
\* PUT /:id replaces the array element by a new object. `heap` holds every
\* object allocated so far, mockReports the array of references.

\* How many report objects the modelled requests allocate in all.
MaxObjects == 4

\* How many requests that allocate nothing are served.
MaxMockRequests == 3

\* The report types validateReport accepts.
MockTypes == {"monthly", "quarterly", "annual", "custom"}

\* The types and statuses the modelled request bodies carry (a PUT body's
\* status is not validated; NULL: the body has none).
MockTypeInputs == {"monthly", "quarterly"}
MockStatusInputs == {NULL, "pending", "completed"}

\* The ids the modelled requests name.
MockIds == 1 .. 3

\* The users the modelled requests come from.
MockUsers == {1, 2}

\* The file of the seeded completed report; a generated file is <<n>>, n >= 1
\* counting the timers that have fired.
SeedFile == <<0>>

MockInit ==
  /\ heap = << [id |-> 1, type |-> "monthly", status |-> "completed",
                generatedBy |-> 1, fileUrl |-> SeedFile],
               [id |-> 2, type |-> "quarterly", status |-> "pending",
                generatedBy |-> 2, fileUrl |-> NoFile] >>
  /\ mockReports = <<1, 2>>
  /\ timers = <<>>
  /\ fired = 0
  /\ socketio \in BOOLEAN
  /\ mockEmitted = <<>>
  /\ mockRequests = 0

\* mockReports.findIndex(r => r.id === id): the first match, 0 when none.
FindIndex(id) ==
  LET hits == {i \in 1 .. Len(mockReports) : heap[mockReports[i]].id = id}
  IN IF hits = {} THEN 0 ELSE CHOOSE i \in hits : \A j \in hits : i <= j

MockServed ==
  /\ mockRequests < MaxMockRequests
  /\ mockRequests' = mockRequests + 1

\* POST /: the new report's id is mockReports.length + 1.
MockCreate(type, user) ==
  /\ Len(heap) < MaxObjects
  /\ heap' = Append(heap, [id |-> Len(mockReports) + 1, type |-> type,
                           status |-> "pending", generatedBy |-> user,
                           fileUrl |-> NoFile])
  /\ mockReports' = Append(mockReports, Len(heap) + 1)
  /\ UNCHANGED <<timers, fired, socketio, mockEmitted, mockRequests>>
  /\ UNCHANGED notMock

\* PUT /:id: the array element is replaced by a copy with the body's fields.
MockUpdate(id, type, status) ==
  /\ FindIndex(id) # 0
  /\ Len(heap) < MaxObjects
  /\ LET i == FindIndex(id)
         old == heap[mockReports[i]]
     IN /\ heap' = Append(heap, [old EXCEPT !.type = type,
                                 !.status = IF status = NULL THEN old.status
                                            ELSE status])
        /\ mockReports' = [mockReports EXCEPT ![i] = Len(heap) + 1]
  /\ UNCHANGED <<timers, fired, socketio, mockEmitted, mockRequests>>
  /\ UNCHANGED notMock

\* DELETE /:id: mockReports.splice(index, 1).
MockDelete(id) ==
  /\ FindIndex(id) # 0
  /\ MockServed
  /\ LET i == FindIndex(id)
     IN mockReports' = [j \in 1 .. Len(mockReports) - 1 |->
                          IF j < i THEN mockReports[j] ELSE mockReports[j + 1]]
  /\ UNCHANGED <<heap, timers, fired, socketio, mockEmitted>>
  /\ UNCHANGED notMock

\* POST /:id/generate: the found object is set to generating and a timer that
\* holds it is started; nothing is emitted.
MockGenerate(id) ==
  /\ FindIndex(id) # 0
  /\ MockServed
  /\ LET ref == mockReports[FindIndex(id)]
     IN /\ heap' = [heap EXCEPT ![ref].status = "generating"]
        /\ timers' = Append(timers, ref)
  /\ UNCHANGED <<mockReports, fired, socketio, mockEmitted>>
  /\ UNCHANGED notMock

\* A request for an id no stored report has: 404, nothing changes.
MockNotFound(id) ==
  /\ FindIndex(id) = 0
  /\ MockServed
  /\ UNCHANGED <<heap, mockReports, timers, fired, socketio, mockEmitted>>
  /\ UNCHANGED notMock

\* The setTimeout callback: the timers have one delay, so they fire in the
\* order they were started. The object the timer holds is completed, and the
\* owner's room is notified if the app has a socket.io server registered.
MockTimerFire ==
  /\ timers # <<>>
  /\ LET ref == Head(timers)
         done == [heap[ref] EXCEPT !.status = "completed", !.fileUrl = <<fired + 1>>]
     IN /\ heap' = [heap EXCEPT ![ref] = done]
        /\ mockEmitted' =
             IF socketio
               THEN Append(mockEmitted, [room |-> done.generatedBy, reportId |-> done.id,
                                         status |-> "completed", fileUrl |-> done.fileUrl])
               ELSE mockEmitted
        /\ IF socketio THEN ToRoom(done.generatedBy, done.id)
                       ELSE UNCHANGED delivered
  /\ timers' = Tail(timers)
  /\ fired' = fired + 1
  /\ UNCHANGED <<mockReports, socketio, mockRequests>>
  /\ UNCHANGED emitMock

MockNext ==
  \/ \E type \in MockTypeInputs, user \in MockUsers : MockCreate(type, user)
  \/ \E id \in MockIds, type \in MockTypeInputs, status \in MockStatusInputs :
       MockUpdate(id, type, status)
  \/ \E id \in MockIds : MockDelete(id)
  \/ \E id \in MockIds : MockGenerate(id)
  \/ \E id \in MockIds : MockNotFound(id)
  \/ MockTimerFire

\* The in-memory routes without DELETE /:id: every report stays stored.
MockKeepNext ==
  \/ \E type \in MockTypeInputs, user \in MockUsers : MockCreate(type, user)
  \/ \E id \in MockIds, type \in MockTypeInputs, status \in MockStatusInputs :
       MockUpdate(id, type, status)
  \/ \E id \in MockIds : MockGenerate(id)
  \/ \E id \in MockIds : MockNotFound(id)
  \/ MockTimerFire

\* ------------------------------------------- who may read and update
\* app.use('/api/reports', auth, reportRoutes): every request of the in-memory
\* routes passes the auth middleware first, which sets req.user to the entry
\* of mockUsers the token names. No route handler looks at req.user again,
\* except POST / for generatedBy.

\* mockUsers: id -> role.
MockUserRoles == (1 :> "admin") @@ (2 :> "manager")

\* The user ids the modelled tokens name; 3 is in no entry of mockUsers.
MockTokens == {1, 2, 3}

\* auth: the request goes on only if the token's user is in mockUsers.
Auth(user) == user \in DOMAIN MockUserRoles

ReadInit == mockRead = <<>>

\* GET /:id by an authenticated user: the report found, or 404.
MockGet(user, id) ==
  /\ Auth(user)
  /\ mockRead' =
       IF FindIndex(id) = 0
         THEN <<[user |-> user, id |-> id, code |-> 404, data |-> <<>>]>>
         ELSE <<[user |-> user, id |-> id, code |-> 200,
                 data |-> <<heap[mockReports[FindIndex(id)]]>>]>>
  /\ UNCHANGED notRead

\* PUT /:id by an authenticated user.
MockPut(user, id, type, status) ==
  /\ Auth(user)
  /\ MockUpdate(id, type, status)

MockAccessNext ==
  \/ \E type \in MockTypeInputs, user \in MockUsers : MockCreate(type, user)
  \/ \E user \in MockTokens, id \in MockIds, type \in MockTypeInputs,
        status \in MockStatusInputs : MockPut(user, id, type, status)
  \/ \E user \in MockTokens, id \in MockIds : MockGet(user, id)

\* ------------------------------------------------------ socket.io clients
\* io.on('connection') of the application: a client connects, joins the room
\* of any user id it names (the handler checks nothing), and disconnects.

\* The clients and the user ids they name in 'join'.
Sockets == {"a", "b"}
JoinUsers == {1, 2}

SockInit ==
  /\ connected = {}
  /\ rooms = [s \in Sockets |-> {}]
  /\ delivered = {}

SocketConnect(s) ==
  /\ s \notin connected
  /\ connected' = connected \cup {s}
  /\ UNCHANGED rooms
  /\ UNCHANGED notSock

\* socket.on('join', userId): socket.join('user_' + userId).
SocketJoin(s, userId) ==
  /\ s \in connected
  /\ rooms' = [rooms EXCEPT ![s] = @ \cup {userId}]
  /\ UNCHANGED connected
  /\ UNCHANGED notSock

\* A disconnecting socket leaves its rooms.
SocketDisconnect(s) ==
  /\ s \in connected
  /\ connected' = connected \ {s}
  /\ rooms' = [rooms EXCEPT ![s] = {}]
  /\ UNCHANGED notSock

\* Clients come and go while one report is created and generated.
NotifyNext ==
  \/ \E s \in Sockets : SocketConnect(s)
  \/ \E s \in Sockets, userId \in JoinUsers : SocketJoin(s, userId)
  \/ \E s \in Sockets : SocketDisconnect(s)
  \/ nextId = 1 /\ \E type \in CreateTypes : CreateInsert(type, FALSE)
  \/ \E id \in Ids : CreateRespond(id)
  \/ \E t \in TaskIds : Load(t)
  \/ \E t \in TaskIds : MarkProcessing(t)
  \/ \E t \in TaskIds : Dispatch(t)
  \/ \E t \in TaskIds, ok \in BOOLEAN : Fetch(t, ok)
  \/ \E t \in TaskIds, ok \in BOOLEAN : Render(t, ok)
  \/ \E t \in TaskIds : PersistCompleted(t)
  \/ \E t \in TaskIds : EmitCompleted(t)
  \/ \E t \in TaskIds : CatchPersist(t)
  \/ \E t \in TaskIds : EmitFailed(t)

\* --------------------------------------------------- the rendering engine
\* ReportGenerator.initBrowser and cleanup, and the renders that call
\* initBrowser (generateComplianceReport, generatePDFFromData,
\* generatePDFFromTemplate). Engines are numbered 1, 2, ... as launched.

\* How many engines are launched in all.
MaxEngines == 3

\* The generation tasks that render.
Renderers == {1, 2}

BrowserInit ==
  /\ browser = 0
  /\ engines = 0
  /\ launches = 0
  /\ renders = [r \in Renderers |-> [pc |-> "idle", engine |-> 0]]
  /\ closing = FALSE

\* initBrowser up to its await: if (!this.browser) puppeteer.launch(...) is
\* called; otherwise this.browser is returned.
InitBrowserCheck(r) ==
  /\ renders[r].pc = "idle"
  /\ IF browser = 0
       THEN /\ engines < MaxEngines
            /\ engines' = engines + 1
            /\ launches' = launches + 1
            /\ renders' = [renders EXCEPT ![r] = [pc |-> "launching", engine |-> engines + 1]]
       ELSE /\ renders' = [renders EXCEPT ![r] = [pc |-> "page", engine |-> browser]]
            /\ UNCHANGED <<engines, launches>>
  /\ UNCHANGED <<browser, closing>>
  /\ UNCHANGED notBrowser

\* The launch resolves: this.browser = <the engine launched>; return this.browser.
InitBrowserAssign(r) ==
  /\ renders[r].pc = "launching"
  /\ browser' = renders[r].engine
  /\ renders' = [renders EXCEPT ![r].pc = "page"]
  /\ UNCHANGED <<engines, launches, closing>>
  /\ UNCHANGED notBrowser

\* browser.newPage() ... page.close() on the engine initBrowser returned.
RenderPage(r) ==
  /\ renders[r].pc = "page"
  /\ renders' = [renders EXCEPT ![r] = [pc |-> "idle", engine |-> 0]]
  /\ UNCHANGED <<browser, engines, launches, closing>>
  /\ UNCHANGED notBrowser

\* cleanup up to its await: if (this.browser) this.browser.close().
CleanupClose ==
  /\ ~closing
  /\ browser # 0
  /\ closing' = TRUE
  /\ UNCHANGED <<browser, engines, launches, renders>>
  /\ UNCHANGED notBrowser

\* cleanup after its await: this.browser = null.
CleanupNull ==
  /\ closing
  /\ closing' = FALSE
  /\ browser' = 0
  /\ launches' = 0
  /\ UNCHANGED <<engines, renders>>
  /\ UNCHANGED notBrowser

BrowserNext ==
  \/ \E r \in Renderers : InitBrowserCheck(r)
  \/ \E r \in Renderers : InitBrowserAssign(r)
  \/ \E r \in Renderers : RenderPage(r)
  \/ CleanupClose
  \/ CleanupNull

\* ================================================== ReportTemplate hooks
\* ReportTemplate.create and instance.update run the model's beforeCreate /
\* beforeUpdate hook, whose bulk UPDATE is awaited, and then write the row.

\* How many templates are created in all.
MaxTemplates == 3

\* How many creates and updates are between their hook and their write.
MaxTplOps == 2

\* The template types of the modelled requests.
TplTypes == {"monthly", "quarterly"}

TplInit ==
  /\ templates = <<>>
  /\ tplOps = <<>>

\* ReportTemplate.update({isDefault: false}, {where: {type, isDefault: true,
\* id: {[Op.ne]: id}}}); a template not yet inserted has no id (0 here), and
\* the UPDATE then reaches every default template of the type.
ClearDefaults(rows, type, id) ==
  [i \in DOMAIN rows |->
     IF rows[i].type = type /\ rows[i].isDefault /\ i # id
       THEN [rows[i] EXCEPT !.isDefault = FALSE]
       ELSE rows[i]]

PendingCreates == {k \in DOMAIN tplOps : tplOps[k].kind = "create"}

\* The beforeCreate hook of ReportTemplate.create({type, isDefault}).
BeforeCreate(type, isDefault) ==
  /\ Len(templates) + Cardinality(PendingCreates) < MaxTemplates
  /\ Len(tplOps) < MaxTplOps
  /\ templates' = IF isDefault THEN ClearDefaults(templates, type, 0) ELSE templates
  /\ tplOps' = Append(tplOps, [kind |-> "create", id |-> 0, type |-> type,
                               isDefault |-> isDefault, setType |-> TRUE,
                               setDefault |-> TRUE])
  /\ UNCHANGED notTpl

\* The beforeUpdate hook of template.update({type, isDefault}) on the stored
\* template id: it acts only when isDefault changed, and changed to true.
BeforeUpdate(id, type, isDefault) ==
  /\ id \in DOMAIN templates
  /\ Len(tplOps) < MaxTplOps
  /\ LET row == templates[id]
         changedType == type # row.type
         changedDefault == isDefault # row.isDefault
     IN /\ changedType \/ changedDefault
        /\ templates' = IF changedDefault /\ isDefault
                          THEN ClearDefaults(templates, type, id)
                          ELSE templates
        /\ tplOps' = Append(tplOps, [kind |-> "update", id |-> id, type |-> type,
                                     isDefault |-> isDefault, setType |-> changedType,
                                     setDefault |-> changedDefault])
  /\ UNCHANGED notTpl

\* The INSERT of a create, or the UPDATE of the changed fields of an update.
TplWrite(k) ==
  /\ k \in DOMAIN tplOps
  /\ LET op == tplOps[k]
     IN templates' =
          IF op.kind = "create"
            THEN Append(templates, [type |-> op.type, isDefault |-> op.isDefault])
            ELSE [templates EXCEPT ![op.id] =
                    [type |-> IF op.setType THEN op.type ELSE @.type,
                     isDefault |-> IF op.setDefault THEN op.isDefault ELSE @.isDefault]]
  /\ tplOps' = [j \in 1 .. Len(tplOps) - 1 |-> IF j < k THEN tplOps[j] ELSE tplOps[j + 1]]
  /\ UNCHANGED notTpl

TplNext ==
  \/ \E type \in TplTypes, isDefault \in BOOLEAN : BeforeCreate(type, isDefault)
  \/ \E id \in 1 .. MaxTemplates, type \in TplTypes, isDefault \in BOOLEAN :
       BeforeUpdate(id, type, isDefault)
  \/ \E k \in 1 .. MaxTplOps : TplWrite(k)

\* ------------------------------------------------- the compliance score
\* ReportGenerator.processComplianceChecks over the checks that
\* fetchComplianceData builds, one per regulation of the request.

\* The lists drawn hold up to MaxMajority checks of one status and up to
\* MaxMinority of the other.
MaxMajority == 200
MaxMinority == 2

\* The statuses fetchComplianceData gives a check.
CheckStatuses == {"compliant", "violation"}

\* The number Math.round returns for 0/0. It is not an integer: it stands
\* outside every range of integers and equals no score.
NaN == -1

\* Math.round((compliant / total) * 100): the nearest integer, a half rounded
\* up; 0 / 0 is NaN and Math.round(NaN) is NaN. compliant <= total, so no
\* other division by zero occurs. For the lists drawn here the
\* double-precision quotient rounds to the same integer as the exact one.
MathRoundPercent(compliant, total) ==
  IF total = 0 THEN NaN ELSE (200 * compliant + total) \div (2 * total)

\* data.checks.filter(check => check.status === status)
FilterStatus(list, status) == SelectSeq(list, LAMBDA check : check.status = status)

processComplianceChecks(data) ==
  LET violations == FilterStatus(data, "violation")
      compliantChecks == FilterStatus(data, "compliant")
      overallScore == MathRoundPercent(Len(compliantChecks), Len(data))
  IN [overallScore |-> overallScore,
      violations |-> violations,
      compliantChecks |-> compliantChecks,
      totalChecks |-> Len(data)]

\* regulations.map(reg => ({regulation: reg, status: ...})): one check per
\* regulation, each compliant or a violation.
fetchComplianceData(nCompliant, nViolation, violationsFirst) ==
  [i \in 1 .. nCompliant + nViolation |->
     [regulation |-> i,
      status |-> IF violationsFirst
                   THEN (IF i <= nViolation THEN "violation" ELSE "compliant")
                   ELSE (IF i <= nCompliant THEN "compliant" ELSE "violation")]]

\* No compliance report is being generated.
ComplianceIdle ==
  /\ checks = <<>>
  /\ compliance = <<>>

\* generateComplianceReport has fetched the checks of its regulations.
ComplianceInit ==
  /\ \E nCompliant \in 0 .. MaxMajority, nViolation \in 0 .. MaxMajority,
        violationsFirst \in BOOLEAN :
       /\ nCompliant <= MaxMinority \/ nViolation <= MaxMinority
       /\ checks = fetchComplianceData(nCompliant, nViolation, violationsFirst)
  /\ compliance = <<>>

\* const complianceResults = this.processComplianceChecks(complianceData, regulations)
ProcessComplianceChecks ==
  /\ compliance = <<>>
  /\ compliance' = <<processComplianceChecks(checks)>>
  /\ UNCHANGED <<checks, aggVars, pipeVars, hookVars>>
  /\ UNCHANGED notPure

ComplianceNext == ProcessComplianceChecks

\* ------------------------------------------------- aggregate transformation
\* ReportGenerator.aggregateData(data, groupBy, aggregateFields). A number is
\* held as a fraction [num, den] whose den is a power of two, so that the
\* halving of 'avg' is exact, as it is in double precision.

\* How many records the data holds at most, and the largest source value.
MaxRecords == 4
MaxValue == 2

\* The values of the groupBy field and of the source field in the data.
AggKeys == {"A", "B"}
AggValues == 0 .. MaxValue

\* The aggregate step applied: group by dept, with one field per operation.
GroupBy == "dept"
AggregateFields ==
  <<[name |-> "total", operation |-> "sum", sourceField |-> "amount"],
    [name |-> "n", operation |-> "count", sourceField |-> "amount"],
    [name |-> "mean", operation |-> "avg", sourceField |-> "amount"]>>

\* The number 0 a field of a new group starts from.
Zero == [num |-> 0, den |-> 1]

\* The switch on field.operation, applied to the field's value `prev` and the
\* item's source value x: prev + x, prev + 1, (prev + x) / 2; an operation
\* that is none of the three leaves the value as it is.
AccumulateSumOverwrites(prev, operation, x) ==
  CASE operation = "sum" -> [num |-> x, den |-> 1]
    [] operation = "count" -> [num |-> prev.num + prev.den, den |-> prev.den]
    [] operation = "avg" -> [num |-> prev.num + x * prev.den, den |-> 2 * prev.den]
    [] OTHER -> prev
Accumulate(prev, operation, x) ==
  CASE operation = "sum" -> [num |-> prev.num + x * prev.den, den |-> prev.den]
    [] operation = "count" -> [num |-> prev.num + prev.den, den |-> prev.den]
    [] operation = "avg" -> [num |-> prev.num + x * prev.den, den |-> 2 * prev.den]
    [] OTHER -> prev

\* grouped[key] = { [groupBy]: key } with every aggregate field set to 0.
NewGroup(groupBy, key, aggregateFields) ==
  (groupBy :> key) @@
    [name \in {aggregateFields[k].name : k \in DOMAIN aggregateFields} |-> Zero]

\* The inner aggregateFields.forEach on the group of the item, from field k on.
RECURSIVE ApplyFields(_, _, _, _)
ApplyFields(group, item, aggregateFields, k) ==
  IF k > Len(aggregateFields)
    THEN group
    ELSE LET field == aggregateFields[k]
         IN ApplyFields([group EXCEPT ![field.name] =
                           Accumulate(@, field.operation, item[field.sourceField])],
                        item, aggregateFields, k + 1)

\* Where grouped[key] is among the groups, which are kept in the order they
\* were added; 0 if grouped[key] is not set.
GroupIndex(grouped, groupBy, key) ==
  IF \E g \in DOMAIN grouped : grouped[g][groupBy] = key
    THEN CHOOSE g \in DOMAIN grouped : grouped[g][groupBy] = key
    ELSE 0

\* data.forEach(item => ...) from item i on.
RECURSIVE ForEachItem(_, _, _, _, _)
ForEachItem(grouped, data, i, groupBy, aggregateFields) ==
  IF i > Len(data)
    THEN grouped
    ELSE LET item == data[i]
             key == item[groupBy]
             withKey == IF GroupIndex(grouped, groupBy, key) = 0
                          THEN Append(grouped, NewGroup(groupBy, key, aggregateFields))
                          ELSE grouped
             g == GroupIndex(withKey, groupBy, key)
         IN ForEachItem([withKey EXCEPT ![g] = ApplyFields(@, item, aggregateFields, 1)],
                        data, i + 1, groupBy, aggregateFields)

\* Object.values(grouped) after the forEach.
aggregateDataWithEmptyGroup(data, groupBy, aggregateFields) ==
  IF data = <<>>
    THEN <<NewGroup(groupBy, <<>>, aggregateFields)>>
    ELSE ForEachItem(<<>>, data, 1, groupBy, aggregateFields)
aggregateData(data, groupBy, aggregateFields) ==
  ForEachItem(<<>>, data, 1, groupBy, aggregateFields)

\* No aggregate step is being applied.
AggregateIdle ==
  /\ aggData = <<>>
  /\ aggregated = <<>>

\* An aggregate transformation is about to be applied to the fetched data.
AggregateInit ==
  /\ \E n \in 0 .. MaxRecords :
       aggData \in [1 .. n -> [dept : AggKeys, amount : AggValues]]
  /\ aggregated = <<>>

\* processedData = this.aggregateData(processedData, transformation.groupBy,
\*                                    transformation.aggregateFields)
AggregateData ==
  /\ aggregated = <<>>
  /\ aggregated' = <<aggregateData(aggData, GroupBy, AggregateFields)>>
  /\ UNCHANGED <<aggData, complianceVars, pipeVars, hookVars>>
  /\ UNCHANGED notPure

AggregateNext == AggregateData

\* ------------------------------------------------ template transformations
\* ReportGenerator.applyTemplateTransformations and evaluateFilter. A record
\* is a function from its field names to values: dept holds a string, as the
\* sequence of its characters, and amount a number; the records aggregateData
\* returns hold dept and the aggregate fields, and no amount.

\* How many records the data holds, how many steps a template lists and how
\* many criteria a filter step lists, at most.
MaxPipeRecords == 2
MaxSteps == 2
MaxCriteria == 2

PipeDepts == {<<"A">>, <<"A", "B">>}
PipeAmounts == {1, 2, 12}

\* A JavaScript value: a number, a string, or undefined.
Number(n) == [kind |-> "number", n |-> n, s |-> <<>>]
String(s) == [kind |-> "string", n |-> 0, s |-> s]
Undefined == [kind |-> "undefined", n |-> 0, s |-> <<>>]

\* item[field]: undefined where the record has no such field.
ItemValue(item, field) ==
  IF field \notin DOMAIN item THEN Undefined
  ELSE IF field = "dept" THEN String(item[field])
  ELSE Number(item[field])

\* The decimal digits of a natural number.
Digits == <<"0", "1", "2", "3", "4", "5", "6", "7", "8", "9">>
RECURSIVE NumberToString(_)
NumberToString(n) ==
  IF n < 10 THEN <<Digits[n + 1]>>
  ELSE Append(NumberToString(n \div 10), Digits[(n % 10) + 1])

\* value.toString() of a number or a string; String.prototype.includes
\* converts its argument the same way.
toString(value) == IF value.kind = "number" THEN NumberToString(value.n) ELSE value.s

\* text.includes(part)
Includes(text, part) ==
  \E i \in 1 .. Len(text) - Len(part) + 1 : SubSeq(text, i, i + Len(part) - 1) = part

\* The criteria of the modelled filter steps. The values of greater and
\* less are numbers; a string of letters or undefined compared with a number
\* is NaN compared with it, which is false.
PipeCriteria ==
  {[field |-> "dept", operator |-> "equals", value |-> String(<<"A">>)],
   [field |-> "amount", operator |-> "equals", value |-> Number(2)],
   [field |-> "amount", operator |-> "greater", value |-> Number(1)],
   [field |-> "amount", operator |-> "less", value |-> Number(12)],
   [field |-> "amount", operator |-> "contains", value |-> String(<<"2">>)]}

\* The callback of criteria.every: "true", "false", or "TypeError" where
\* itemValue.toString() is called on undefined.
Criterion(item, criterion) ==
  LET itemValue == ItemValue(item, criterion.field)
      Bool(b) == IF b THEN "true" ELSE "false"
  IN CASE criterion.operator = "equals" -> Bool(itemValue = criterion.value)
       [] criterion.operator = "greater" ->
            Bool(/\ itemValue.kind = "number" /\ criterion.value.kind = "number"
                 /\ itemValue.n > criterion.value.n)
       [] criterion.operator = "less" ->
            Bool(/\ itemValue.kind = "number" /\ criterion.value.kind = "number"
                 /\ itemValue.n < criterion.value.n)
       [] criterion.operator = "contains" ->
            IF itemValue.kind = "undefined"
              THEN "TypeError"
              ELSE Bool(Includes(toString(itemValue), toString(criterion.value)))
       [] OTHER -> "true"

\* criteria.every(...) from criterion k on: it stops at the first criterion
\* that is false or throws.
RECURSIVE EveryFrom(_, _, _)
EveryFrom(item, criteria, k) ==
  IF k > Len(criteria)
    THEN "true"
    ELSE LET r == Criterion(item, criteria[k])
         IN IF r = "true" THEN EveryFrom(item, criteria, k + 1) ELSE r

evaluateFilter(item, criteria) == EveryFrom(item, criteria, 1)

\* processedData.filter(item => this.evaluateFilter(item, criteria)) from
\* item i on, `kept` being the items kept so far: a new array, or the error
\* thrown at the first item whose evaluation throws.
RECURSIVE FilterFrom(_, _, _, _)
FilterFrom(list, criteria, i, kept) ==
  IF i > Len(list)
    THEN [threw |-> FALSE, value |-> kept]
    ELSE LET r == evaluateFilter(list[i], criteria)
         IN IF r = "TypeError"
              THEN [threw |-> TRUE, value |-> <<>>]
              ELSE FilterFrom(list, criteria, i + 1,
                              IF r = "true" THEN Append(kept, list[i]) ELSE kept)

FilterArrayDropsFirst(list, criteria) ==
  LET r == FilterFrom(list, criteria, 1, <<>>)
  IN IF r.value = <<>> THEN r ELSE [r EXCEPT !.value = Tail(@)]
FilterArray(list, criteria) == FilterFrom(list, criteria, 1, <<>>)

\* The comparator of the sort step: bValue - aValue for 'desc', aValue -
\* bValue otherwise; with a field the records lack it is NaN, which sort
\* takes for 0.
Compare(a, b, field, order) ==
  IF field \notin DOMAIN a \/ field \notin DOMAIN b THEN 0
  ELSE IF order = "desc" THEN b[field] - a[field]
  ELSE a[field] - b[field]

\* Array.prototype.sort is stable: x goes behind the elements that do not
\* compare greater than it.
RECURSIVE Insert(_, _, _, _)
Insert(sorted, x, field, order) ==
  IF sorted = <<>> THEN <<x>>
  ELSE LET last == sorted[Len(sorted)]
       IN IF Compare(last, x, field, order) <= 0
            THEN Append(sorted, x)
            ELSE Append(Insert(SubSeq(sorted, 1, Len(sorted) - 1), x, field, order), last)

RECURSIVE SortFrom(_, _, _, _, _)
SortFrom(list, i, sorted, field, order) ==
  IF i > Len(list) THEN sorted
  ELSE SortFrom(list, i + 1, Insert(sorted, list[i], field, order), field, order)

SortArray(list, field, order) == SortFrom(list, 1, <<>>, field, order)

\* The steps of the modelled templates: filters of up to MaxCriteria
\* criteria, sorts by amount, and the aggregate step of AggregateFields.
FilterSteps ==
  {[type |-> "filter", criteria |-> criteria, field |-> "", order |-> ""] :
     criteria \in UNION {[1 .. n -> PipeCriteria] : n \in 0 .. MaxCriteria}}
SortSteps ==
  {[type |-> "sort", criteria |-> <<>>, field |-> "amount", order |-> order] :
     order \in {"asc", "desc"}}
AggregateStep == [type |-> "aggregate", criteria |-> <<>>, field |-> "", order |-> ""]
PipeSteps == FilterSteps \cup SortSteps \cup {AggregateStep}

\* let processedData = [...data]: arrays[1] is the caller's array, and
\* processedData refers to a copy of it.
CopyDataAliased(data) ==
  [arrays |-> <<data>>, processedData |-> 1, threw |-> FALSE]
CopyData(data) ==
  [arrays |-> <<data, data>>, processedData |-> 2, threw |-> FALSE]

\* The switch on transformation.type, on the arrays `m`: filter and
\* aggregate make processedData refer to a new array, sort reorders the
\* array processedData refers to; any other type does nothing.
ApplyTransformation(m, transformation) ==
  LET current == m.arrays[m.processedData]
      new(array) == [m EXCEPT !.arrays = Append(@, array), !.processedData = Len(m.arrays) + 1]
  IN CASE transformation.type = "filter" ->
            LET r == FilterArray(current, transformation.criteria)
            IN IF r.threw THEN [m EXCEPT !.threw = TRUE] ELSE new(r.value)
       [] transformation.type = "sort" ->
            [m EXCEPT !.arrays[m.processedData] =
                        SortArray(current, transformation.field, transformation.order)]
       [] transformation.type = "aggregate" ->
            new(aggregateData(current, GroupBy, AggregateFields))
       [] OTHER -> m

\* transformations.forEach(...) from step i on; a step that throws ends it.
RECURSIVE ForEachTransformationReversed(_, _, _)
ForEachTransformationReversed(m, transformations, i) ==
  IF i > Len(transformations) \/ m.threw
    THEN m
    ELSE ForEachTransformationReversed(
           ApplyTransformation(m, transformations[Len(transformations) + 1 - i]),
           transformations, i + 1)
RECURSIVE ForEachTransformation(_, _, _)
ForEachTransformation(m, transformations, i) ==
  IF i > Len(transformations) \/ m.threw
    THEN m
    ELSE ForEachTransformation(ApplyTransformation(m, transformations[i]),
                               transformations, i + 1)

\* The outcome of the call: whether it threw, the array it returned, and the
\* caller's array after it.
applyTemplateTransformations(data, transformations) ==
  LET m == ForEachTransformation(CopyData(data), transformations, 1)
  IN [threw |-> m.threw,
      value |-> IF m.threw THEN <<>> ELSE m.arrays[m.processedData],
      data |-> m.arrays[1]]

\* No custom report is between its fetch and its transformations.
PipelineIdle ==
  /\ pipeData = <<>>
  /\ pipeSteps = <<>>
  /\ pipeResult = <<>>

\* generateCustomReport has fetched the data of a template. At most one step
\* aggregates: a second aggregate would find no amount in its records.
PipelineInit ==
  /\ \E n \in 0 .. MaxPipeRecords :
       pipeData \in [1 .. n -> [dept : PipeDepts, amount : PipeAmounts]]
  /\ \E n \in 0 .. MaxSteps :
       /\ pipeSteps \in [1 .. n -> PipeSteps]
       /\ Cardinality({k \in 1 .. n : pipeSteps[k].type = "aggregate"}) <= 1
  /\ pipeResult = <<>>

\* processedData = this.applyTemplateTransformations(data, templateConfig.transformations)
ApplyTemplateTransformations ==
  /\ pipeResult = <<>>
  /\ pipeResult' = <<applyTemplateTransformations(pipeData, pipeSteps)>>
  /\ UNCHANGED <<pipeData, pipeSteps, complianceVars, aggVars, hookVars>>
  /\ UNCHANGED notPure

PipelineNext == ApplyTemplateTransformations

\* ---------------------------------------------- Report beforeCreate hook
\* The beforeCreate hook of the Report model. A date is its local year,
\* month (0 for January, as getMonth gives it) and day of the month.

\* The last year of the years the hook runs in, which start at FirstYear.
FirstYear == 2024
LastYear == 2025

\* The types the Report model declares.
ModelTypes == {"monthly", "quarterly", "annual", "custom"}

HookDays == {1, 15, 28, 31}

IsLeap(year) == (year % 4 = 0 /\ year % 100 # 0) \/ year % 400 = 0

DaysInMonth(year, month) ==
  IF month = 1 THEN (IF IsLeap(year) THEN 29 ELSE 28)
  ELSE IF month \in {3, 5, 8, 10} THEN 30
  ELSE 31

\* new Date(year, month, day) for month >= 0 and 1 <= day <= 31: a month
\* past December runs into the years after, and a day past the month's
\* last runs into the next month.
NewDateKeepsMonth(year, month, day) ==
  [year |-> year, month |-> month, day |-> day]
NewDate(year, month, day) ==
  LET y == year + (month \div 12)
      m == month % 12
  IN IF day <= DaysInMonth(y, m)
       THEN [year |-> y, month |-> m, day |-> day]
       ELSE [year |-> y + ((m + 1) \div 12), month |-> (m + 1) % 12,
             day |-> day - DaysInMonth(y, m)]

\* The hook's body: report.dueDate, <<>> while not set, is computed from
\* now for the types monthly, quarterly and annual.
beforeCreate(report, now) ==
  IF report.dueDate # <<>>
    THEN report
    ELSE CASE report.type = "monthly" ->
                [report EXCEPT !.dueDate = <<NewDate(now.year, now.month + 1, 15)>>]
           [] report.type = "quarterly" ->
                LET quarter == now.month \div 3
                IN [report EXCEPT !.dueDate = <<NewDate(now.year, (quarter + 1) * 3, 30)>>]
           [] report.type = "annual" ->
                [report EXCEPT !.dueDate = <<NewDate(now.year + 1, 2, 31)>>]
           [] OTHER -> report

HookDates ==
  {d \in [year : FirstYear .. LastYear, month : 0 .. 11, day : HookDays] :
     d.day <= DaysInMonth(d.year, d.month)}

\* No Report.create is at its hook.
HookIdle ==
  /\ hookNow = [year |-> FirstYear, month |-> 0, day |-> 1]
  /\ hookReport = [type |-> "monthly", dueDate |-> <<>>]
  /\ hookDone = FALSE

\* Report.create({type, dueDate}) is before its hook.
HookInit ==
  /\ hookNow \in HookDates
  /\ \E type \in ModelTypes, dueDate \in {<<>>, <<NewDate(FirstYear, 5, 30)>>} :
       hookReport = [type |-> type, dueDate |-> dueDate]
  /\ hookDone = FALSE

\* Report.create runs the hook.
BeforeCreateHook ==
  /\ ~hookDone
  /\ hookDone' = TRUE
  /\ hookReport' = beforeCreate(hookReport, hookNow)
  /\ UNCHANGED <<hookNow, complianceVars, aggVars, pipeVars>>
  /\ UNCHANGED notPure

HookNext == BeforeCreateHook

\* ------------------------------------------------------ POST /register
\* backend/routes/auth.js keeps the users in the array mockUsers. The
\* handler of POST /register looks the email up, awaits bcrypt.genSalt and
\* bcrypt.hash, and then pushes the new user.

\* How many POST /register requests are received in all.
MaxRegistrations == 3

AdminEmail == "admin@sacco.com"
ManagerEmail == "manager@sacco.com"

\* The emails of the modelled requests, as normalizeEmail leaves them.
RegisterEmails == {AdminEmail, "a@sacco.com", "b@sacco.com"}

NoResponse == [code |-> 0, email |-> ""]

AuthInit ==
  /\ users = <<[id |-> 1, email |-> AdminEmail], [id |-> 2, email |-> ManagerEmail]>>
  /\ registering = <<>>
  /\ registrations = 0
  /\ registerResponse = NoResponse

\* mockUsers.find(u => u.email === email) finds a user.
ExistingUser(email) == \E i \in DOMAIN users : users[i].email = email

\* The handler up to its first await: 400 if the email is taken, otherwise
\* bcrypt.genSalt(10) is called.
RegisterFind(email) ==
  /\ registrations < MaxRegistrations
  /\ registrations' = registrations + 1
  /\ IF ExistingUser(email)
       THEN /\ registerResponse' = [code |-> 400, email |-> email]
            /\ UNCHANGED registering
       ELSE /\ registering' = Append(registering, [email |-> email, pc |-> "genSalt"])
            /\ UNCHANGED registerResponse
  /\ UNCHANGED users
  /\ UNCHANGED notAuth

\* genSalt has resolved: bcrypt.hash(password, salt) is called.
RegisterSalted(k) ==
  /\ k \in DOMAIN registering
  /\ registering[k].pc = "genSalt"
  /\ registering' = [registering EXCEPT ![k].pc = "hash"]
  /\ UNCHANGED <<users, registrations, registerResponse>>
  /\ UNCHANGED notAuth

\* hash has resolved: the new user, with id mockUsers.length + 1, is pushed
\* and the handler answers 201.
RegisterPush(k) ==
  /\ k \in DOMAIN registering
  /\ registering[k].pc = "hash"
  /\ users' = Append(users, [id |-> Len(users) + 1, email |-> registering[k].email])
  /\ registering' = [j \in 1 .. Len(registering) - 1 |->
                       IF j < k THEN registering[j] ELSE registering[j + 1]]
  /\ registerResponse' = [code |-> 201, email |-> registering[k].email]
  /\ UNCHANGED registrations
  /\ UNCHANGED notAuth

RegisterNext ==
  \/ \E email \in RegisterEmails : RegisterFind(email)
  \/ \E k \in 1 .. MaxRegistrations : RegisterSalted(k)
  \/ \E k \in 1 .. MaxRegistrations : RegisterPush(k)

\* POST /register handled one request at a time: a request is received only
\* when no handler is at an await.
RegisterSerialNext ==
  \/ registering = <<>> /\ \E email \in RegisterEmails : RegisterFind(email)
  \/ \E k \in 1 .. MaxRegistrations : RegisterSalted(k)
  \/ \E k \in 1 .. MaxRegistrations : RegisterPush(k)

\* ------------------------------------------------------ createRateLimit
\* The middleware createRateLimit(windowMs, max) returns. Time is counted in
\* units of which RateWindow make windowMs.

\* windowMs and max of the limiter, the last instant of the clock, and how
\* many requests over max a key sends within one window.
RateWindow == 2
RateMax == 2
MaxTime == 5
MaxOver == 2

\* req.ip + (req.user?.id || 'anonymous') of the modelled requests.
RateKeys == {"10.0.0.1" \o "1", "10.0.0.2" \o "anonymous"}

NoEntry == <<>>

RateInit ==
  /\ rateNow = 0
  /\ rateRequests = [k \in RateKeys |-> NoEntry]
  /\ ratePassed = [k \in RateKeys |-> <<>>]
  /\ rateResponse = [key |-> "", code |-> 0]

\* Time passes.
RateTick ==
  /\ rateNow < MaxTime
  /\ rateNow' = rateNow + 1
  /\ UNCHANGED <<rateRequests, ratePassed, rateResponse>>
  /\ UNCHANGED notRate

\* now - v.timestamp > windowMs
Expired(entry, now) == now - entry.timestamp > RateWindow

\* The loop over requests.entries(): the expired entries are deleted.
CleanOld(map, now) ==
  [k \in RateKeys |-> IF map[k] # NoEntry /\ Expired(map[k][1], now) THEN NoEntry ELSE map[k]]

\* userRequests.count > max
TooManyOffByOne(count) == count > RateMax + 1
TooMany(count) == count > RateMax

\* The middleware on a request of the key: 429, or the headers are set and
\* next() is called.
RateLimit(key) ==
  LET now == rateNow
      cleaned == CleanOld(rateRequests, now)
      found == IF cleaned[key] = NoEntry THEN [count |-> 0, timestamp |-> now]
               ELSE cleaned[key][1]
      fresh == IF Expired(found, now) THEN [count |-> 0, timestamp |-> now] ELSE found
      userRequests == [fresh EXCEPT !.count = @ + 1]
  IN /\ userRequests.count <= RateMax + MaxOver
     /\ rateRequests' = [cleaned EXCEPT ![key] = <<userRequests>>]
     /\ IF TooMany(userRequests.count)
          THEN /\ rateResponse' = [key |-> key, code |-> 429]
               /\ UNCHANGED ratePassed
          ELSE /\ rateResponse' = [key |-> key, code |-> 200]
               /\ ratePassed' = [ratePassed EXCEPT ![key] = Append(@, now)]
     /\ UNCHANGED rateNow
     /\ UNCHANGED notRate

RateNext ==
  \/ RateTick
  \/ \E key \in RateKeys : RateLimit(key)

\* ------------------------------------------------------- specifications
\* Each specification runs one part of the repository and leaves the others
\* in their initial state.

\* Template operations one at a time: an operation starts only when none is
\* between its hook and its write.
TplSerialNext ==
  \/ tplOps = <<>> /\ \E type \in TplTypes, isDefault \in BOOLEAN : BeforeCreate(type, isDefault)
  \/ tplOps = <<>> /\ \E id \in 1 .. MaxTemplates, type \in TplTypes, isDefault \in BOOLEAN :
                        BeforeUpdate(id, type, isDefault)
  \/ \E k \in 1 .. MaxTplOps : TplWrite(k)

vars ==
  <<dbVars, mockVars, tplVars, readVars, sockVars, delivered, browserVars, pureVars,
    authVars, rateVars>>

\* The state after start-up. app.get('socketio') yields a server only where
\* the application registered one under that name.
Init ==
  /\ DbInit /\ MockInit /\ TplInit /\ ReadInit /\ SockInit /\ BrowserInit
  /\ AuthInit /\ RateInit
  /\ ComplianceIdle /\ AggregateIdle /\ PipelineIdle /\ HookIdle

\* Start-up of the application as it is: it registers no 'socketio' setting.
InitAsWired == Init /\ ~socketio

\* The database-backed routes and the orchestrator over a reliable store: the
\* faults are those of fetching, transforming and rendering, and the failed
\* preconditions of generateReport.
Spec == InitAsWired /\ [][Next]_vars

\* The same system when the store's operations inside the try block of
\* generateReport may throw as well.
TryFaultSpec == InitAsWired /\ [][TryFaultNext]_vars

\* The same system when any store operation of generateReport may throw, the
\* Report.update of its catch block included.
FaultSpec == InitAsWired /\ [][FaultNext]_vars

\* The in-memory routes, with or without a socket.io server registered.
MockSpec == Init /\ [][MockNext]_vars

\* Report creation and generation with socket.io clients connected.
NotifySpec == InitAsWired /\ [][NotifyNext]_vars

\* The rendering engine shared by the generation tasks.
BrowserSpec == InitAsWired /\ [][BrowserNext]_vars

\* Creation and generation where a render may hang; a continuation that is
\* ready to run is eventually run.
LiveSpec ==
  /\ InitAsWired
  /\ [][LiveNext]_vars
  /\ \A t \in 1 .. MaxTasks : WF_vars(Step(t))

\* The in-memory routes without deletions; a timer that was started fires.
MockLiveSpec ==
  /\ InitAsWired
  /\ [][MockKeepNext]_vars
  /\ WF_vars(MockTimerFire)

\* Reads and updates of the in-memory routes by the users of mockUsers.
MockAccessSpec == Init /\ [][MockAccessNext]_vars

\* The ReportTemplate hooks, operations interleaving at their awaits.
TemplateSpec == InitAsWired /\ [][TplNext]_vars

\* The ReportTemplate hooks, operations one after the other.
TemplateSerialSpec == InitAsWired /\ [][TplSerialNext]_vars

\* Start-up with everything at rest but the transformation whose inputs a
\* specification draws.
RestInit ==
  /\ DbInit /\ MockInit /\ TplInit /\ ReadInit /\ SockInit /\ BrowserInit
  /\ AuthInit /\ RateInit
  /\ ~socketio

\* processComplianceChecks applied to the checks of a compliance report.
ComplianceStart == RestInit /\ ComplianceInit /\ AggregateIdle /\ PipelineIdle /\ HookIdle

ComplianceSpec == ComplianceStart /\ [][ComplianceNext]_vars

\* aggregateData applied to the records of a templated report.
AggregateStart == RestInit /\ ComplianceIdle /\ AggregateInit /\ PipelineIdle /\ HookIdle

AggregateSpec == AggregateStart /\ [][AggregateNext]_vars

\* applyTemplateTransformations applied to the data of a custom report.
PipelineStart == RestInit /\ ComplianceIdle /\ AggregateIdle /\ PipelineInit /\ HookIdle

PipelineSpec == PipelineStart /\ [][PipelineNext]_vars

\* The beforeCreate hook of Report applied to new reports.
HookStart == RestInit /\ ComplianceIdle /\ AggregateIdle /\ PipelineIdle /\ HookInit

HookSpec == HookStart /\ [][HookNext]_vars

\* POST /register, the handlers interleaving at their awaits.
RegisterSpec == InitAsWired /\ [][RegisterNext]_vars

\* POST /register, one request after the other.
RegisterSerialSpec == InitAsWired /\ [][RegisterSerialNext]_vars

\* The limiter of createRateLimit serving requests as time passes.
RateSpec == InitAsWired /\ [][RateNext]_vars

\* ------------------------------------------------------------------ claims
\* The orchestrator writes 'processing' where the Report model declares
\* 'generating'; both name the state between pending and the terminal states.
Lifecycle(status) == IF status = "processing" THEN "generating" ELSE status

LifecycleSteps ==
  {<<"pending", "generating">>, <<"generating", "completed">>,
   <<"generating", "failed">>}

\* C1 (as claimed): in every step, every stored report's status is one of
\* pending, generating, completed, failed (reading 'processing' as generating),
\* a new report starts pending, and a status changes only along
\* pending -> generating -> completed | failed.
C1_StatusLifecycle ==
  [][\A id \in DOMAIN reports' :
       /\ Lifecycle(reports'[id].status) \in ModelStatuses
       /\ id \notin DOMAIN reports => reports'[id].status = "pending"
       /\ id \in DOMAIN reports =>
            \/ Lifecycle(reports'[id].status) = Lifecycle(reports[id].status)
            \/ <<Lifecycle(reports[id].status), Lifecycle(reports'[id].status)>>
                 \in LifecycleSteps]_dbVars

TerminalFieldsSet(row) ==
  /\ row.status = "completed" => row.outputFile # NoFile
  /\ row.status = "failed" => row.errorMessage # NULL

\* C2 (as claimed): in every reachable state a completed report has its output
\* file set and a failed report has its error message set.
C2_TerminalFieldsAlways == \A id \in DOMAIN reports : TerminalFieldsSet(reports[id])

\* What the code does keep: every step other than a PUT /:id that creates or
\* changes a report leaves it with its output file set if it is completed and
\* with its error message set if it is failed.
C2_GeneratorSetsTerminalFields ==
  [][\/ \E id \in Ids, status \in PutStatuses : UpdateReport(id, status)
     \/ \A id \in DOMAIN reports' :
          (id \notin DOMAIN reports \/ reports'[id] # reports[id])
            => TerminalFieldsSet(reports'[id])]_dbVars

C2_Witness ==
  \E t \in TaskIds :
    /\ tasks[t].pc = "resolved"
    /\ tasks[t].report \in DOMAIN reports
    /\ reports[tasks[t].report].status = "completed"
    /\ reports[tasks[t].report].outputFile = tasks[t].file
    /\ tasks[t].file # NoFile

FailureOf(task) ==
  [reportId |-> task.report, status |-> "failed", message |-> task.err]

\* C3: when a step of generateReport has thrown, the catch block's write leaves
\* the report (if it is stored) failed, with the thrown message as its error
\* message and its completion time set, and generateReport rejects only after a
\* failure notification with the report's id and that message has been emitted.
C3_FailureRecordedAndNotified ==
  [][\A t \in TaskIds :
       /\ (tasks[t].pc = "catch" /\ tasks'[t].pc # "catch") =>
            /\ tasks'[t].pc = "emitFailed"
            /\ tasks'[t].err = tasks[t].err
            /\ tasks[t].report \in DOMAIN reports =>
                 /\ reports'[tasks[t].report].status = "failed"
                 /\ reports'[tasks[t].report].errorMessage = tasks[t].err
                 /\ reports'[tasks[t].report].completedAt
       /\ (tasks[t].pc # "rejected" /\ tasks'[t].pc = "rejected") =>
            /\ tasks[t].pc = "emitFailed"
            /\ notifications' = Append(notifications, FailureOf(tasks[t]))]_dbVars

C3_Witness ==
  \E t \in TaskIds :
    /\ tasks[t].pc = "rejected"
    /\ tasks[t].err = RenderFailedMsg
    /\ tasks[t].report \in DOMAIN reports
    /\ reports[tasks[t].report].status = "failed"
    /\ reports[tasks[t].report].errorMessage = RenderFailedMsg
    /\ reports[tasks[t].report].completedAt
    /\ notifications[Len(notifications)] = FailureOf(tasks[t])

\* C4 (as claimed): when a generation run ends, its report's id has been
\* notified twice, in order: once on entering generating and once on entering
\* completed or failed.
C4_NotifiedAtEachTransition ==
  [][MockTimerFire =>
       LET id == heap[Head(timers)].id
       IN \E i, j \in 1 .. Len(mockEmitted') :
            /\ i < j
            /\ mockEmitted'[i].reportId = id
            /\ mockEmitted'[i].status = "generating"
            /\ mockEmitted'[j].reportId = id
            /\ mockEmitted'[j].status \in {"completed", "failed"}]_mockVars

InFlight(task) == task.pc \notin {"resolved", "rejected"}

Count(S) == Cardinality(S)

\* C5: nothing excludes a second generation of a report: a trigger for a stored
\* report is accepted whatever generations of it are in flight (as long as the
\* model's bounds leave room), and every generation that resolves has emitted a
\* completion notification of its own.
C5_NoMutualExclusion ==
  /\ \A id \in DOMAIN reports :
       (TaskRoom /\ requests < MaxRequests) => ENABLED Trigger(id)
  /\ \A id \in Ids :
       Count({t \in TaskIds : tasks[t].report = id /\ tasks[t].pc = "resolved"})
         = Count({i \in 1 .. Len(notifications) :
                    /\ notifications[i].reportId = id
                    /\ notifications[i].status = "completed"})

\* Two generations of one report in flight at once, each having written the
\* report's status and its own output file, each about to emit its notification.
C5_Witness ==
  \E t1, t2 \in TaskIds :
    /\ t1 # t2
    /\ tasks[t1].report = tasks[t2].report
    /\ tasks[t1].pc = "emitCompleted"
    /\ tasks[t2].pc = "emitCompleted"
    /\ tasks[t1].file # tasks[t2].file
    /\ {tasks[t1].file, tasks[t2].file} \subseteq files
    /\ tasks[t1].report \in DOMAIN reports
    /\ reports[tasks[t1].report].status = "completed"
    /\ reports[tasks[t1].report].outputFile \in {tasks[t1].file, tasks[t2].file}

\* C6 (as claimed): no type has more than one default template.
C6_OneDefaultPerType ==
  \A type \in TplTypes :
    Cardinality({i \in DOMAIN templates :
                   templates[i].type = type /\ templates[i].isDefault}) <= 1

\* C7: a download answered with the file stream (200) was asked for a stored
\* report that was completed and had an output file; a download of a stored
\* report that is not completed is answered 400.
C7_DownloadOnlyWhenCompleted ==
  [][\A id \in Ids, onDisk \in BOOLEAN :
       DownloadReport(id, onDisk) =>
         /\ lastResponse'.code = 200 =>
              /\ id \in DOMAIN reports
              /\ reports[id].status = "completed"
              /\ reports[id].outputFile # NoFile
         /\ (id \in DOMAIN reports /\ reports[id].status # "completed") =>
              lastResponse'.code = 400]_dbVars

\* A report in processing that already has an output file is refused.
C7_Witness ==
  /\ lastResponse.op = "download"
  /\ lastResponse.code = 400
  /\ lastResponse.id \in DOMAIN reports
  /\ reports[lastResponse.id].status = "processing"
  /\ reports[lastResponse.id].outputFile # NoFile

\* C8: POST / answers 201 with the report in status pending at the moment it
\* starts the generation, before any step of that generation has run, and no
\* generation started by POST / exists before the response is sent.
C8_CreateRespondsBeforeGeneration ==
  [][/\ (lastResponse' # lastResponse /\ lastResponse'.op = "create") =>
          /\ lastResponse'.code = 201
          /\ lastResponse'.status = "pending"
          /\ Len(tasks') = Len(tasks) + 1
          /\ tasks'[Len(tasks')] = NewTask(lastResponse'.id, "create")
     /\ \A t \in 1 .. Len(tasks') :
          tasks'[t].caller = "create" => tasks'[t].report \notin creating']_dbVars

\* The response said pending; the generation it started has failed since.
C8_Witness ==
  /\ lastResponse.op = "create"
  /\ lastResponse.status = "pending"
  /\ \E t \in TaskIds :
       /\ tasks[t].caller = "create"
       /\ tasks[t].report = lastResponse.id
       /\ tasks[t].pc = "rejected"
       /\ lastResponse.id \in DOMAIN reports
       /\ reports[lastResponse.id].status = "failed"

\* C9 (as claimed): no rejection goes unhandled, and every generation that has
\* rejected has emitted a failure notification with its report id and message.
C9_GenerationErrorsContained ==
  /\ ~unhandled
  /\ \A t \in TaskIds :
       tasks[t].pc = "rejected" =>
         \E i \in 1 .. Len(notifications) : notifications[i] = FailureOf(tasks[t])

CustomWithoutTemplate(task) ==
  task.loaded /\ task.type = "custom" /\ ~task.hasTemplate

C11_EditOnlyPendingOrFailed ==
  [][\A id \in Ids, status \in PutStatuses \cup {NULL} :
       (/\ UpdateReport(id, status)
        /\ id \in DOMAIN reports
        /\ reports[id].status \notin {"pending", "failed"})
         => reports'[id] = reports[id]]_dbVars

\* requireOwnershipOrAdmin's rule: an admin, or the user the report belongs to.
MayAccess(user, report) ==
  MockUserRoles[user] = "admin" \/ report.generatedBy = user

\* C12 (as claimed): a GET /:id or PUT /:id by a user who is neither an admin
\* nor the owner of the stored report is rejected: the GET returns no report
\* and the PUT changes nothing.
C12_OwnerOrAdminOnly ==
  [][\A user \in MockUsers, id \in MockIds :
       (FindIndex(id) # 0 /\ ~MayAccess(user, heap[mockReports[FindIndex(id)]])) =>
         /\ MockGet(user, id) => (mockRead'[1].code # 200 /\ mockRead'[1].data = <<>>)
         /\ \A type \in MockTypeInputs, status \in MockStatusInputs :
              MockPut(user, id, type, status) => UNCHANGED <<heap, mockReports>>]_vars

\* POST / stores createdBy: req.user.id; the modelled requests are such that
\* the report with id i is created by user i.
CreatedBy(id) == id

\* C13 (as claimed): whenever a status notification for a report is emitted, it
\* arrives at every connected socket that is in the room of the report's owner
\* and at no other socket.
C13_OnlyOwnersRoom ==
  [][Len(notifications') = Len(notifications) + 1 =>
       LET id == notifications'[Len(notifications')].reportId
           members == {[socket |-> s, reportId |-> id, rooms |-> rooms[s]] :
                         s \in {x \in connected : CreatedBy(id) \in rooms[x]}}
       IN delivered' = members]_vars

\* C14 (as claimed): since the last cleanup at most one engine has been
\* launched, and a task that renders holds the engine this.browser names.
C14_SingleEngine ==
  /\ launches <= 1
  /\ \A r \in Renderers :
       (renders[r].pc = "page" /\ ~closing /\ browser # 0) => renders[r].engine = browser

Triggered(id) == \E t \in TaskIds : tasks[t].report = id

Hung(id) == \E t \in TaskIds : tasks[t].report = id /\ tasks[t].pc = "hung"

Finished(id) == id \in DOMAIN reports /\ reports[id].status \in {"completed", "failed"}

\* C15: every report whose generation has been triggered eventually is
\* completed or failed, unless its own render hangs; a hung render of another
\* report does not prevent it.
C15_OthersFinish ==
  \A id \in Ids : [](Triggered(id) => <>(Finished(id) \/ Hung(id)))

\* Report 1 hangs in its render and report 2, triggered after it, is finished.
C15_Witness ==
  /\ Hung(1)
  /\ Triggered(2)
  /\ Finished(2)
  /\ ~Finished(1)

\* How many of the checks handed in have the status.
CountStatus(status) == Cardinality({i \in DOMAIN checks : checks[i].status = status})

\* s is round(100 * compliant / total): the integer within a half of the
\* quotient, the upper one of two.
IsRoundedPercent(s, compliant, total) ==
  /\ 2 * total * s - 200 * compliant <= total
  /\ 200 * compliant - 2 * total * s < total

\* C16: for every list of regulation checks, the empty list included, the
\* score processComplianceChecks computes is an integer between 0 and 100
\* inclusive, and it equals round(100 * compliant_count / total_count).
C16_ScoreIsRoundedPercent ==
  compliance # <<>> =>
    /\ compliance[1].overallScore \in 0 .. 100
    /\ Len(checks) > 0 =>
         IsRoundedPercent(compliance[1].overallScore, CountStatus("compliant"), Len(checks))

\* C16 for the lists that hold a check: the score is the rounded percentage.
C16_NonEmptyScoreIsRoundedPercent ==
  (compliance # <<>> /\ Len(checks) > 0) =>
    /\ compliance[1].overallScore \in 0 .. 100
    /\ IsRoundedPercent(compliance[1].overallScore, CountStatus("compliant"), Len(checks))

\* C17: for every list of regulation checks the score is 100 if and only if
\* the list holds no violation; a list with a violation never scores 100,
\* however many compliant checks it has.
C17_HundredIffNoViolation ==
  compliance # <<>> =>
    (compliance[1].overallScore = 100 <=> CountStatus("violation") = 0)

\* A list with a violation that scores 100: 199 compliant checks and one
\* violation make 99.5, which Math.round takes to 100.
C17_ViolationScoresHundred ==
  /\ compliance # <<>>
  /\ CountStatus("violation") > 0
  /\ compliance[1].overallScore = 100

\* C18: for every list of regulation checks the score is 0 if and only if the
\* list holds no compliant check; a list with a compliant check never scores
\* 0, however many violations it has.
C18_ZeroIffNoCompliant ==
  compliance # <<>> =>
    (compliance[1].overallScore = 0 <=> CountStatus("compliant") = 0)

\* A list with a compliant check that scores 0: one compliant check among
\* 201 makes 0.4975..., which Math.round takes to 0.
C18_CompliantScoresZero ==
  /\ compliance # <<>>
  /\ CountStatus("compliant") > 0
  /\ compliance[1].overallScore = 0

\* The input records whose groupBy field is key, by their positions.
GroupItems(key) == {i \in DOMAIN aggData : aggData[i][GroupBy] = key}

\* The total of the source field over the input records at positions S.
RECURSIVE SumAmounts(_)
SumAmounts(S) ==
  IF S = {} THEN 0
  ELSE LET i == CHOOSE j \in S : TRUE
       IN aggData[i].amount + SumAmounts(S \ {i})

\* The total of the 'count' fields of the first k groups.
RECURSIVE SumCounts(_, _)
SumCounts(groups, k) ==
  IF k = 0 THEN 0 ELSE groups[k]["n"].num + SumCounts(groups, k - 1)

\* C19: for every group produced by an aggregate step with operation avg,
\* the output value equals the arithmetic mean, total divided by count, of
\* the source-field values of the group's records, whatever the group's size.
C19_AvgIsMean ==
  aggregated # <<>> =>
    \A g \in DOMAIN aggregated[1] :
      LET group == aggregated[1][g]
          items == GroupItems(group[GroupBy])
      IN group["mean"].num * Cardinality(items) = SumAmounts(items) * group["mean"].den

\* A group of three records whose 'avg' value is not their mean.
C19_ThreeRecordsNotMean ==
  /\ aggregated # <<>>
  /\ \E g \in DOMAIN aggregated[1] :
       LET group == aggregated[1][g]
           items == GroupItems(group[GroupBy])
       IN /\ Cardinality(items) = 3
          /\ group["mean"].num * 3 # SumAmounts(items) * group["mean"].den

FrontSteps == SubSeq(pipeSteps, 1, Len(pipeSteps) - 1)
LastStep == pipeSteps[Len(pipeSteps)]

\* What the steps before the last one hand to it.
BeforeLast == applyTemplateTransformations(pipeData, FrontSteps)

\* The criterion holds of the record: the record's value of the field is the
\* criterion's value, is greater or less than it, or has it as a part of its
\* text.
Holds(criterion, item) ==
  /\ criterion.field \in DOMAIN item
  /\ LET v == item[criterion.field]
         text == IF criterion.field = "dept" THEN v ELSE NumberToString(v)
         part == criterion.value.s
     IN CASE criterion.operator = "equals" ->
               IF criterion.field = "dept"
                 THEN criterion.value.kind = "string" /\ v = criterion.value.s
                 ELSE criterion.value.kind = "number" /\ v = criterion.value.n
          [] criterion.operator = "greater" -> criterion.field = "amount" /\ v > criterion.value.n
          [] criterion.operator = "less" -> criterion.field = "amount" /\ v < criterion.value.n
          [] criterion.operator = "contains" ->
               \E i, j \in 1 .. Len(text) : SubSeq(text, i, j) = part

HoldsAll(criteria, item) == \A k \in DOMAIN criteria : Holds(criteria[k], item)

\* C21: a filter step keeps exactly the records for which every supplied
\* criterion holds, in their input order, and drops every record for which
\* a criterion fails; the records are those the steps before it hand to it.
C21_FilterKeepsExactlyMatching ==
  (pipeResult # <<>> /\ pipeSteps # <<>> /\ LastStep.type = "filter" /\ ~BeforeLast.threw) =>
    /\ ~pipeResult[1].threw
    /\ pipeResult[1].value =
         SelectSeq(BeforeLast.value, LAMBDA item : HoldsAll(LastStep.criteria, item))

\* C21 for a filter step whose records all carry the fields of its criteria:
\* the filter is the template's only step.
C21_FilterOfFetchedRecords ==
  (pipeResult # <<>> /\ Len(pipeSteps) = 1 /\ LastStep.type = "filter") =>
    /\ ~pipeResult[1].threw
    /\ pipeResult[1].value =
         SelectSeq(pipeData, LAMBDA item : HoldsAll(LastStep.criteria, item))

\* A filter step has thrown on records that lack the field of its contains
\* criterion.
C21_FilterThrows ==
  /\ pipeResult # <<>>
  /\ Len(pipeSteps) = 2
  /\ LastStep.type = "filter"
  /\ ~BeforeLast.threw
  /\ pipeResult[1].threw

EqualsOnly(criteria) == \A k \in DOMAIN criteria : criteria[k].operator = "equals"

\* C22: filtering is idempotent for equals criteria: for every record list
\* and every list of equals criteria, the filter step applied twice yields
\* the list it yields applied once.
C22_EqualsFilterIdempotent ==
  (/\ pipeResult # <<>> /\ Len(pipeSteps) = 2 /\ pipeSteps[1] = pipeSteps[2]
   /\ LastStep.type = "filter" /\ EqualsOnly(LastStep.criteria)) =>
    /\ ~pipeResult[1].threw
    /\ ~BeforeLast.threw
    /\ pipeResult[1].value = BeforeLast.value

\* A filter of two equals criteria has been applied twice to two records, of
\* which it keeps one.
C22_Witness ==
  /\ pipeResult # <<>>
  /\ Len(pipeSteps) = 2 /\ pipeSteps[1] = pipeSteps[2]
  /\ LastStep.type = "filter" /\ EqualsOnly(LastStep.criteria)
  /\ Len(LastStep.criteria) = 2
  /\ Len(pipeData) = 2
  /\ Len(pipeResult[1].value) = 1

\* C23: the steps apply in list order, each to the output of the one before:
\* the result for [s1, ..., sn] is sn applied to the result for
\* [s1, ..., s(n-1)], and the result for no step is the input list.
C23_StepsInListOrder ==
  pipeResult # <<>> =>
    IF pipeSteps = <<>>
      THEN ~pipeResult[1].threw /\ pipeResult[1].value = pipeData
      ELSE IF BeforeLast.threw
        THEN pipeResult[1].threw
        ELSE LET last == applyTemplateTransformations(BeforeLast.value, <<LastStep>>)
             IN /\ pipeResult[1].threw = last.threw
                /\ pipeResult[1].value = last.value

\* Two records have been sorted in descending order and then aggregated:
\* the groups stand in the order the sort gave their records.
C23_Witness ==
  /\ pipeResult # <<>>
  /\ Len(pipeSteps) = 2
  /\ pipeSteps[1].type = "sort" /\ pipeSteps[1].order = "desc"
  /\ pipeSteps[2].type = "aggregate"
  /\ Len(pipeData) = 2 /\ pipeData[1].amount < pipeData[2].amount
  /\ Len(pipeResult[1].value) = 2
  /\ pipeResult[1].value[1]["dept"] = pipeData[2].dept

\* C24: for an empty record list every step and every list of steps returns
\* an empty list and raises no error.
C24_EmptyInEmptyOut ==
  (pipeResult # <<>> /\ pipeData = <<>>) =>
    /\ ~pipeResult[1].threw
    /\ pipeResult[1].value = <<>>

\* An aggregate step and a filter with a contains criterion have been
\* applied to the empty list.
C24_Witness ==
  /\ pipeResult # <<>>
  /\ pipeData = <<>>
  /\ Len(pipeSteps) = 2
  /\ pipeSteps[1].type = "aggregate"
  /\ pipeSteps[2].type = "filter"
  /\ \E k \in DOMAIN pipeSteps[2].criteria : pipeSteps[2].criteria[k].operator = "contains"

\* C29: applyTemplateTransformations never modifies its input: after the
\* call the caller's list holds the same records in the same order, sort
\* steps included.
C29_InputUnmodified ==
  pipeResult # <<>> => pipeResult[1].data = pipeData

\* A sort step has reordered the records: the result differs from the
\* caller's list.
C29_Witness ==
  /\ pipeResult # <<>>
  /\ \E k \in DOMAIN pipeSteps : pipeSteps[k].type = "sort"
  /\ ~pipeResult[1].threw
  /\ Len(pipeResult[1].value) = 2
  /\ Len(pipeData) = 2
  /\ pipeResult[1].value[1] = pipeData[2]
  /\ pipeResult[1].value[2] = pipeData[1]
  /\ pipeData[1] # pipeData[2]

\* C25: a monthly report created without a due date gets the 15th of the
\* month following its creation month as due date, January of the next year
\* when created in December; a report created with a due date keeps it.
C25_MonthlyDueDate ==
  [][BeforeCreateHook =>
       /\ hookReport.dueDate # <<>> => hookReport'.dueDate = hookReport.dueDate
       /\ (hookReport.dueDate = <<>> /\ hookReport.type = "monthly") =>
            hookReport'.dueDate =
              <<IF hookNow.month = 11
                  THEN [year |-> hookNow.year + 1, month |-> 0, day |-> 15]
                  ELSE [year |-> hookNow.year, month |-> hookNow.month + 1, day |-> 15]>>]_vars

\* A monthly report created in December without a due date is due on 15
\* January of the next year.
C25_Witness ==
  /\ hookDone
  /\ hookReport.type = "monthly"
  /\ hookNow.month = 11 /\ hookNow.year = FirstYear
  /\ hookReport.dueDate = <<[year |-> FirstYear + 1, month |-> 0, day |-> 15]>>

\* POST /:id/generate was accepted for the stored report id and its timer
\* has not fired yet.
MockGenerating(id) ==
  /\ FindIndex(id) # 0
  /\ \E k \in DOMAIN timers : heap[timers[k]].id = id

\* The report stored under id is completed and has a file.
MockCompleted(id) ==
  /\ FindIndex(id) # 0
  /\ heap[mockReports[FindIndex(id)]].status = "completed"
  /\ heap[mockReports[FindIndex(id)]].fileUrl # NoFile

\* C26: once POST /:id/generate has been accepted for a stored report, the
\* report stored under that id eventually is completed with a file, also
\* when a PUT /:id for it is processed before the timer fires.
C26_GenerateCompletesStored ==
  \A id \in MockIds : [](MockGenerating(id) => <>MockCompleted(id))

\* The timer of report 2 has fired on the object a PUT replaced meanwhile:
\* the stored report is still generating and no timer is left for it.
C26_StoredLeftGenerating ==
  /\ timers = <<>>
  /\ fired = 1
  /\ FindIndex(2) # 0
  /\ heap[mockReports[FindIndex(2)]].status = "generating"

\* C27: in the in-memory store, after any sequence of POST / and DELETE /:id
\* requests no two stored reports have the same id.
C27_UniqueIds ==
  \A i, j \in DOMAIN mockReports :
    heap[mockReports[i]].id = heap[mockReports[j]].id => i = j

\* C28: the user store never holds two users with the same email: a register
\* request for an email already present is answered 400 and leaves the store
\* unchanged, also when two requests for the same email interleave at the
\* password-hashing awaits.
C28_UniqueEmails ==
  \A i, j \in DOMAIN users : users[i].email = users[j].email => i = j

\* C28 for requests handled one after the other: a request for a stored
\* email is answered 400 and changes nothing, and no email is stored twice.
C28_SerialUniqueEmails ==
  /\ C28_UniqueEmails
  /\ registerResponse.code = 400 => ExistingUser(registerResponse.email)

\* A request for an email that was registered before has been rejected.
C28_SerialWitness ==
  /\ registerResponse = [code |-> 400, email |-> "a@sacco.com"]
  /\ Len(users) = 3

\* The key's window is open: the key has an entry that has not expired; the
\* window began at the entry's timestamp.
WindowOpen(key) ==
  rateRequests[key] # NoEntry /\ rateNow - rateRequests[key][1].timestamp <= RateWindow

\* How many requests of the key have been passed on since instant t.
PassedSince(key, t) ==
  Cardinality({i \in DOMAIN ratePassed[key] : ratePassed[key][i] >= t})

\* C30: for every key at most max requests are passed on to the next handler
\* within one window; each further request in that window is answered 429 and
\* not passed on; after the window has elapsed the key's count starts again
\* from zero.
C30_AtMostMaxPerWindow ==
  [][\A key \in RateKeys :
       RateLimit(key) =>
         LET used == IF WindowOpen(key)
                       THEN PassedSince(key, rateRequests[key][1].timestamp)
                       ELSE 0
         IN /\ used <= RateMax
            /\ Cardinality({i \in DOMAIN ratePassed'[key] :
                              ratePassed'[key][i] >= rateRequests'[key][1].timestamp})
                 <= RateMax
            /\ (WindowOpen(key) /\ used = RateMax) =>
                 /\ rateResponse' = [key |-> key, code |-> 429]
                 /\ ratePassed' = ratePassed
            /\ ~WindowOpen(key) =>
                 rateRequests'[key] = <<[count |-> 1, timestamp |-> rateNow]>>
            /\ rateResponse'.code # 429 => Len(ratePassed'[key]) = Len(ratePassed[key]) + 1]_vars

\* A key has had max requests passed in one window, a request refused, and
\* after the window max requests passed again and one more refused.
C30_Witness ==
  \E key \in RateKeys :
    /\ Len(ratePassed[key]) = 2 * RateMax
    /\ rateResponse = [key |-> key, code |-> 429]
    /\ rateRequests[key] # NoEntry
    /\ rateRequests[key][1].count = RateMax + 1
    /\ ratePassed[key][1] + RateWindow < rateRequests[key][1].timestamp


====
